---- MODULE Spec2Model ----
(***************************************************************************)
(* Traffix: the dashboard script (dashboard/js/scripts.js) and the parts   *)
(* of the manager it talks to (live event feed, aggregation queries,       *)
(* administrative reset, security heuristics).                             *)
(***************************************************************************)
EXTENDS Integers, Sequences, FiniteSets, TLC

VARIABLES
    selectedAgentId,  \* scripts.js:1   the agent the viewer selected ("all" or an id string)
    agentOptions,     \* the values of the <select id="agentSelect"> options
    loadingAgents,    \* TRUE while loadAgents() awaits /api/agents
    charts,           \* scripts.js:2   chart id -> [labels, data]
    log,              \* children of #log-container, newest first
    pings,            \* circle markers currently on the map
    banners,          \* .security-banner elements of document.body, newest first
    fetches,          \* updateDashboard() invocations awaiting their /api/stats response
    resetCalls,       \* confirmReset() invocations awaiting their reset-db response
    alerts,           \* the alert() dialogs shown so far, each with what caused it
    reloads,          \* number of location.reload() calls so far
    nLive,            \* live events handled so far
    nOps,             \* inputs so far: live events, viewer refreshes, reset clicks, events received
    lastInput,        \* the last input (live event, refresh, reset click) and its arguments
    now,              \* the manager's clock
    portWindow,       \* heuristics engine: source -> its (port, timestamp) pairs, oldest first
    lastAlertAt,      \* heuristics engine: source -> time of its last port-scan alert
    classified,       \* the events the heuristics engine has emitted, oldest first
    arrived,          \* ingestion: events received, their write not yet begun
    inflight,         \* ingestion: events whose write has begun and not ended
    store,            \* the durable store: the persisted events
    exclusive,        \* reset controller: "idle", "held", "cleared" or "failed"
    nReceived,        \* events received so far
    committed,        \* the events ever persisted, by number
    cleared,          \* the events whose write had begun at the last successful clear
    nResets,          \* resets requested so far
    completed         \* the last two /api/stats queries answered, with what the page then showed

pageVars == <<selectedAgentId, agentOptions, loadingAgents, charts, log, pings,
              banners, fetches, resetCalls, alerts, reloads, nLive, lastInput>>

dashVars == <<pageVars, nOps>>

engVars == <<portWindow, lastAlertAt, classified>>

storeVars == <<arrived, inflight, store, exclusive, nReceived, committed,
               cleared, nResets, completed>>

----------------------------------------------------------------------------
(* Bounds of the model *)

\* the clock stops here
MaxTime == 3

\* flow observations handed to the heuristics engine
MaxObs == 4

\* events received by the ingestion service
MaxEvents == 3

\* resets requested of the reset controller
MaxResets == 1

\* where the queries are followed: inputs (events received, viewer refreshes)
\* and the time at which the clock stops
MaxQueryOps == 2
MaxQueryTime == 2

\* inputs, all together: live events, viewer refreshes, reset clicks, events received
MaxOps == 3

----------------------------------------------------------------------------
(* JavaScript values *)

Null == "<null>"
Undefined == "<undefined>"

\* ToBoolean of the values an event field can hold
Truthy(v) == v \notin {Null, Undefined, ""}

\* property access: a missing property reads as undefined
Field(obj, name) == IF name \in DOMAIN obj THEN obj[name] ELSE Undefined

AgentIds == {1, 2}

\* Number -> String, as done when a.id is assigned to o.value
NumToStr == (1 :> "1") @@ (2 :> "2")

\* String -> Number of the strings that denote a number; others are NaN
StrToNum == ("1" :> 1) @@ ("2" :> 2)

\* data.agent_id == selectedAgentId with a number on the left, a string on the right
LooseEq(n, s) == s \in DOMAIN StrToNum /\ StrToNum[s] = n

----------------------------------------------------------------------------
(* Sequence helpers *)

IndexOf(s, x) ==
    IF \E i \in 1..Len(s) : s[i] = x
    THEN (CHOOSE i \in 1..Len(s) : s[i] = x /\ \A j \in 1..(i-1) : s[j] # x) - 1
    ELSE -1

Range(s) == {s[i] : i \in 1..Len(s)}

RemoveAt(s, i) == SubSeq(s, 1, i-1) \o SubSeq(s, i+1, Len(s))

----------------------------------------------------------------------------
(* The page *)

ChartIds == {"countryChart", "softwareChart", "ipChart", "bandwidthChart"}

EmptyChart == [labels |-> <<>>, data |-> <<>>]

initCharts == [c \in ChartIds |-> EmptyChart]

countryCoords == {"Israel", "United States", "Germany", "Netherlands",
                  "United Kingdom", "Unknown"}

Timeframes == {"15m", "1h"}

DefaultTimeframe == "15m"

LogCap == 50

Directions == {"in", "out"}

\* (country, software, destination ip, classification) of the live events used
Shapes ==
    { [country |-> "Israel", software_name |-> "chrome",
       destination_ip |-> "10.0.0.1", security_event |-> Null],
      [country |-> "Atlantis", software_name |-> "slack",
       destination_ip |-> "203.0.113.5", security_event |-> "Blacklist Hit"] }

LiveEvents ==
    { [agent_id |-> a, direction |-> d, country |-> s.country,
       software_name |-> s.software_name, destination_ip |-> s.destination_ip,
       security_event |-> s.security_event] :
         a \in AgentIds, d \in Directions, s \in Shapes }

----------------------------------------------------------------------------
(* The live feed: one subscription per page, opened without an agent filter *)

SubscriptionFilter == Null

\* the service pushes an event to a subscriber whose optional filter matches
SubscriberMatches(filter, e) == IF filter = Null THEN TRUE ELSE filter = e.agent_id

----------------------------------------------------------------------------
(* Functions of scripts.js *)

\* the label pushed without the lookup
updateChartAlwaysPush(chart, label) ==
    [labels |-> Append(chart.labels, label), data |-> Append(chart.data, 1)]

updateChart(chart, label) ==
    LET idx == IndexOf(chart.labels, label)
    IN  IF idx > -1
        THEN [chart EXCEPT !.data[idx + 1] = @ + 1]
        ELSE [labels |-> Append(chart.labels, label),
              data |-> Append(chart.data, 1)]

RECURSIVE fill(_, _)
fill(chart, items) ==
    IF items = <<>> THEN chart
    ELSE fill([labels |-> Append(chart.labels, Head(items).label),
               data |-> Append(chart.data, Head(items).value)],
              Tail(items))

\* the marker stands for the circle; coords is the country whose coordinates
\* were looked up, or "random" for the Math.random() fallback
addPing(ps, country, id) ==
    LET coords == IF country \in countryCoords THEN country ELSE "random"
    IN  ps \cup {[id |-> id, coords |-> coords]}

\* a banner that names the target where the classification belongs
showSecurityAlertSwapped(bs, type, target, id) ==
    <<[id |-> id, type |-> target, target |-> type]>> \o bs

showSecurityAlert(bs, type, target, id) ==
    <<[id |-> id, type |-> type, target |-> target]>> \o bs

\* the entry over the cap removed at the front
updateLogRemovesFirst(lg, data, id) ==
    LET d == [id |-> id,
              className |-> IF Truthy(Field(data, "alert"))
                            THEN "log-entry alert-entry" ELSE "log-entry ",
              software_name |-> data.software_name,
              destination_ip |-> data.destination_ip]
        l1 == <<d>> \o lg
    IN  IF Len(l1) > LogCap THEN Tail(l1) ELSE l1

updateLog(lg, data, id) ==
    LET d == [id |-> id,
              className |-> IF Truthy(Field(data, "alert"))
                            THEN "log-entry alert-entry" ELSE "log-entry ",
              software_name |-> data.software_name,
              destination_ip |-> data.destination_ip]
        l1 == <<d>> \o lg
    IN  IF Len(l1) > LogCap THEN SubSeq(l1, 1, Len(l1) - 1) ELSE l1

\* a ping for every event, whatever its direction
IsOutgoingAlways(data) == TRUE

\* the condition of the map ping in socket.onmessage
IsOutgoing(data) == data.direction = "out"

\* the chart update without its condition
AgentMatchesAlways(sel, data) == TRUE

\* the condition of the chart update in socket.onmessage
AgentMatches(sel, data) == sel = "all" \/ LooseEq(data.agent_id, sel)

----------------------------------------------------------------------------
(* The page after the script has run: initCharts(); loadAgents();          *)
(* updateDashboard() with the selects at their first options               *)

PageLoad ==
    /\ selectedAgentId' = "all"
    /\ agentOptions' = <<"all">>
    /\ loadingAgents' = TRUE
    /\ charts' = initCharts
    /\ log' = <<>>
    /\ pings' = {}
    /\ banners' = <<>>
    /\ fetches' = <<[agent |-> "all", timeframe |-> DefaultTimeframe]>>
    /\ resetCalls' = 0

InitDash ==
    /\ selectedAgentId = "all"
    /\ agentOptions = <<"all">>
    /\ loadingAgents = TRUE
    /\ charts = initCharts
    /\ log = <<>>
    /\ pings = {}
    /\ banners = <<>>
    /\ fetches = <<[agent |-> "all", timeframe |-> DefaultTimeframe]>>
    /\ resetCalls = 0
    /\ alerts = <<>>
    /\ reloads = 0
    /\ nLive = 0
    /\ nOps = 0
    /\ lastInput = [op |-> "none"]

----------------------------------------------------------------------------
(* Handlers of the page *)

\* socket.onmessage
OnMessage(data) ==
    LET id == nLive + 1 IN
    /\ nOps < MaxOps
    /\ nOps' = nOps + 1
    /\ nLive' = id
    /\ banners' = IF Truthy(Field(data, "security_event"))
                  THEN showSecurityAlert(banners, data.security_event,
                                         data.destination_ip, id)
                  ELSE banners
    /\ log' = updateLog(log, data, id)
    /\ pings' = IF IsOutgoing(data) THEN addPing(pings, data.country, id)
                ELSE pings
    /\ charts' = IF AgentMatches(selectedAgentId, data)
                 THEN [charts EXCEPT
                         !.countryChart = updateChart(@, data.country),
                         !.softwareChart = updateChart(@, data.software_name),
                         !.ipChart = updateChart(@, data.destination_ip)]
                 ELSE charts
    /\ lastInput' = [op |-> "onmessage", data |-> data]
    /\ UNCHANGED <<selectedAgentId, agentOptions, loadingAgents, fetches,
                   resetCalls, alerts, reloads>>

\* the service pushes an event to the page's subscription
Push ==
    \E e \in LiveEvents :
        /\ SubscriberMatches(SubscriptionFilter, e)
        /\ OnMessage(e)

\* a timer that takes every marker off the map
PingTimeoutClearsMap ==
    /\ pings # {}
    /\ pings' = {}
    /\ UNCHANGED <<selectedAgentId, agentOptions, loadingAgents, charts, log,
                   banners, fetches, resetCalls, alerts, reloads, nLive,
                   nOps, lastInput>>

\* the timer of addPing
PingTimeout ==
    \E m \in pings :
        /\ pings' = pings \ {m}
            /\ UNCHANGED <<selectedAgentId, agentOptions, loadingAgents, charts, log,
                       banners, fetches, resetCalls, alerts, reloads, nLive,
                       nOps, lastInput>>

\* the timer of showSecurityAlert
BannerTimeout ==
    \E i \in 1..Len(banners) :
        /\ banners' = RemoveAt(banners, i)
            /\ UNCHANGED <<selectedAgentId, agentOptions, loadingAgents, charts, log,
                       pings, fetches, resetCalls, alerts, reloads, nLive,
                       nOps, lastInput>>

\* loadAgents, after the await
AgentLists == {<<1, 2>>}

LoadAgentsResponse ==
    \E agents \in AgentLists :
        /\ loadingAgents
        /\ loadingAgents' = FALSE
        /\ agentOptions' = agentOptions \o [i \in 1..Len(agents) |-> NumToStr[agents[i]]]
            /\ UNCHANGED <<selectedAgentId, charts, log, pings, banners, fetches,
                       resetCalls, alerts, reloads, nLive, nOps, lastInput>>

\* updateDashboard up to its first await
updateDashboard(agent, timeframe) ==
    /\ nOps < MaxOps
    /\ nOps' = nOps + 1
    /\ selectedAgentId' = agent
    /\ charts' = [c \in ChartIds |-> EmptyChart]
    /\ fetches' = Append(fetches, [agent |-> agent, timeframe |-> timeframe])
    /\ lastInput' = [op |-> "updateDashboard", agent |-> agent,
                      timeframe |-> timeframe]
    /\ UNCHANGED <<agentOptions, loadingAgents, log, pings, banners, resetCalls,
                   alerts, reloads, nLive>>

\* the viewer changes a select
Refresh ==
    \E agent \in Range(agentOptions), timeframe \in Timeframes :
        updateDashboard(agent, timeframe)

\* updateDashboard after its awaits: the i-th outstanding request is answered
StatsResponse(i, data) ==
    /\ i \in 1..Len(fetches)
    /\ fetches' = RemoveAt(fetches, i)
    /\ charts' = [charts EXCEPT
                    !.countryChart = fill(@, data.countries),
                    !.softwareChart = fill(@, data.softwares),
                    !.ipChart = fill(@, data.ips),
                    !.bandwidthChart = fill(@, data.bandwidth)]
    /\ UNCHANGED <<selectedAgentId, agentOptions, loadingAgents, log, pings,
                   banners, resetCalls, alerts, reloads, nLive, nOps, lastInput>>

\* the fetch or res.json() rejects: the rest of updateDashboard does not run
StatsFailure ==
    \E i \in 1..Len(fetches) :
        /\ fetches' = RemoveAt(fetches, i)
            /\ UNCHANGED <<selectedAgentId, agentOptions, loadingAgents, charts, log,
                       pings, banners, resetCalls, alerts, reloads, nLive,
                       nOps, lastInput>>

\* the request sent whatever the answer to the dialog
confirmResetUnguarded(isSure) ==
    /\ nOps < MaxOps
    /\ nOps' = nOps + 1
    /\ lastInput' = [op |-> "confirmReset", isSure |-> isSure]
    /\ resetCalls' = resetCalls + 1
    /\ UNCHANGED <<selectedAgentId, agentOptions, loadingAgents, charts, log,
                   pings, banners, fetches, alerts, reloads, nLive>>

\* confirmReset up to its first await
confirmReset(isSure) ==
    /\ nOps < MaxOps
    /\ nOps' = nOps + 1
    /\ lastInput' = [op |-> "confirmReset", isSure |-> isSure]
    /\ resetCalls' = IF isSure THEN resetCalls + 1 ELSE resetCalls
    /\ UNCHANGED <<selectedAgentId, agentOptions, loadingAgents, charts, log,
                   pings, banners, fetches, alerts, reloads, nLive>>

ResetClick == \E isSure \in BOOLEAN : confirmReset(isSure)

\* every parsed response taken for a success
ResetResultAlwaysSuccess(result) ==
    /\ resetCalls > 0
    /\ alerts' = Append(alerts, [text |-> "Database cleared successfully!",
                                 cause |-> result.status])
    /\ reloads' = reloads + 1
    /\ PageLoad
    /\ UNCHANGED <<nLive, nOps, lastInput>>

\* confirmReset after its awaits, with the parsed response
ResetResult(result) ==
    /\ resetCalls > 0
    /\ IF result.status = "success"
       THEN /\ alerts' = Append(alerts, [text |-> "Database cleared successfully!",
                                          cause |-> result.status])
            /\ reloads' = reloads + 1
            /\ PageLoad
       ELSE /\ alerts' = Append(alerts, [text |-> "Error: " \o result.message,
                                          cause |-> result.status])
            /\ resetCalls' = resetCalls - 1
            /\ UNCHANGED <<selectedAgentId, agentOptions, loadingAgents, charts,
                           log, pings, banners, fetches, reloads>>
    /\ UNCHANGED <<nLive, nOps, lastInput>>

\* the catch branch of confirmReset
ResetException ==
    /\ resetCalls > 0
    /\ resetCalls' = resetCalls - 1
    /\ alerts' = Append(alerts, [text |-> "Could not connect to the server.",
                                     cause |-> "exception"])
    /\ UNCHANGED <<selectedAgentId, agentOptions, loadingAgents, charts, log,
                   pings, banners, fetches, reloads, nLive, nOps, lastInput>>

----------------------------------------------------------------------------
(* The dashboard against an arbitrary manager: the responses are inputs *)

Item(l, v) == [label |-> l, value |-> v]

StatsSamples ==
    { [countries |-> <<>>, softwares |-> <<>>, ips |-> <<>>, bandwidth |-> <<>>],
      [countries |-> <<Item("Israel", 2), Item("Atlantis", 1)>>,
       softwares |-> <<Item("chrome", 2), Item("slack", 1)>>,
       ips |-> <<Item("10.0.0.1", 2), Item("203.0.113.5", 1)>>,
       bandwidth |-> <<Item("chrome", 3)>>] }

ResetResults ==
    { [status |-> "success", message |-> ""],
      [status |-> "error", message |-> "reset failed"] }

StatsArrives ==
    \E i \in 1..Len(fetches), data \in StatsSamples : StatsResponse(i, data)

ResetArrives == \E result \in ResetResults : ResetResult(result)


----------------------------------------------------------------------------
(* Security Heuristics Engine *)

\* window W, threshold K (distinct destination ports) and cooldown, scaled down
W == 2
K == 2
Cooldown == 2

\* "no alert emitted yet" for a source
NoAlert == -1

Blacklist == {"203.0.113.5"}

\* (agent id, source IP) pairs
Sources == {<<1, "192.168.1.10">>, <<2, "192.168.1.20">>}

\* destination (IP, port) of the flow observations used
Flows ==
    { [destination_ip |-> "10.0.0.1", destination_port |-> 80],
      [destination_ip |-> "10.0.0.1", destination_port |-> 443],
      [destination_ip |-> "10.0.0.1", destination_port |-> 22],
      [destination_ip |-> "203.0.113.5", destination_port |-> 443] }

\* entries older than the window are evicted on every touch
Evict(win, t) == SelectSeq(win, LAMBDA e : e[2] >= t - W)

DistinctPorts(win) == Cardinality({win[i][1] : i \in 1..Len(win)})

IsBlacklisted(ip) == ip \in Blacklist

\* the threshold alone, without the cooldown
PortScanConditionNoCooldown(win, last, t) == DistinctPorts(win) >= K

\* the port-scan condition for a source whose window, after the insert and the
\* eviction, is win and whose last alert was at last
PortScanCondition(win, last, t) ==
    /\ DistinctPorts(win) >= K
    /\ (last = NoAlert \/ t - last >= Cooldown)

\* port-scan ahead of blacklist-hit
PrecedenceScanFirst(blacklisted, scan) ==
    IF scan THEN "port-scan"
    ELSE IF blacklisted THEN "blacklist-hit"
    ELSE "none"

\* at most one classification per event, blacklist-hit ahead of port-scan
Precedence(blacklisted, scan) ==
    IF blacklisted THEN "blacklist-hit"
    ELSE IF scan THEN "port-scan"
    ELSE "none"

\* one insert-then-evaluate transaction for the pair src
Classify(src, flow) ==
    LET win  == Evict(Append(portWindow[src], <<flow.destination_port, now>>), now)
        scan == PortScanCondition(win, lastAlertAt[src], now)
        cls  == Precedence(IsBlacklisted(flow.destination_ip), scan)
    IN  /\ Len(classified) < MaxObs
        /\ portWindow' = [portWindow EXCEPT ![src] = win]
        /\ lastAlertAt' = [lastAlertAt EXCEPT
                             ![src] = IF cls = "port-scan" THEN now ELSE @]
        /\ classified' = Append(classified,
                                [source |-> src,
                                 destination_ip |-> flow.destination_ip,
                                 destination_port |-> flow.destination_port,
                                 timestamp |-> now,
                                 security_event |-> cls])

Observe == \E src \in Sources, flow \in Flows : Classify(src, flow)

Tick ==
    /\ now < MaxTime
    /\ now' = now + 1

InitEngine ==
    /\ portWindow = [src \in Sources |-> <<>>]
    /\ lastAlertAt = [src \in Sources |-> NoAlert]
    /\ classified = <<>>

vars == <<dashVars, now, engVars, storeVars>>

InitStore ==
    /\ arrived = {}
    /\ inflight = {}
    /\ store = {}
    /\ exclusive = "idle"
    /\ nReceived = 0
    /\ committed = {}
    /\ cleared = {}
    /\ nResets = 0
    /\ completed = <<>>

InitAll == InitDash /\ InitEngine /\ InitStore /\ now = 0

EngineNext ==
    \/ Observe /\ UNCHANGED <<dashVars, now, storeVars>>
    \/ Tick /\ UNCHANGED <<dashVars, engVars, storeVars>>

SpecEngine == InitAll /\ [][EngineNext]_vars

----------------------------------------------------------------------------
(* Ingestion & Broadcast Service: the write path *)

ByteCount == 700000

\* the events received: an agent's flow, attributed and located
Incoming ==
    { [agent_id |-> a, country |-> s.country, software_name |-> s.software_name,
       destination_ip |-> s.destination_ip, byte_count |-> ByteCount] :
         a \in AgentIds, s \in Shapes }

\* a transport message is received; its capture timestamp is the current time
Receive ==
    \E e \in Incoming :
        /\ nReceived < MaxEvents
        /\ nOps < MaxOps
        /\ nOps' = nOps + 1
        /\ nReceived' = nReceived + 1
        /\ arrived' = arrived \cup {[event |-> e, timestamp |-> now, n |-> nReceived + 1]}
        /\ UNCHANGED <<inflight, store, exclusive, committed, cleared, nResets,
                       completed>>

\* a write may begin unless the reset controller holds exclusive access
MayWrite == exclusive = "idle"

WriteBegin ==
    \E r \in arrived :
        /\ MayWrite
        /\ arrived' = arrived \ {r}
        /\ inflight' = inflight \cup {r}
        /\ UNCHANGED <<store, exclusive, nReceived, committed, cleared, nResets,
                       completed>>

WriteCommit ==
    \E w \in inflight :
        /\ inflight' = inflight \ {w}
        /\ store' = store \cup {w}
        /\ committed' = committed \cup {w.n}
        /\ UNCHANGED <<arrived, exclusive, nReceived, cleared, nResets, completed>>

\* the write of one event fails: it is logged and the event is not persisted
WriteFails ==
    \E w \in inflight :
        /\ inflight' = inflight \ {w}
        /\ UNCHANGED <<arrived, store, exclusive, nReceived, committed, cleared,
                       nResets, completed>>

----------------------------------------------------------------------------
(* Administrative Reset Controller *)

ResetAcquire ==
    /\ nResets < MaxResets
    /\ exclusive = "idle"
    /\ nResets' = nResets + 1
    /\ exclusive' = "held"
    /\ UNCHANGED <<arrived, inflight, store, nReceived, committed, cleared,
                   completed>>

\* the clear without the wait for the writes in flight
MayClearAtOnce == exclusive = "held"

\* the clear waits for the writes in flight to end
MayClear == exclusive = "held" /\ inflight = {}

\* the events whose write has begun
Begun == (1..nReceived) \ {r.n : r \in arrived}

\* the clear, one atomic unit
ResetClear ==
    /\ MayClear
    /\ store' = {}
    /\ cleared' = Begun
    /\ exclusive' = "cleared"
    /\ UNCHANGED <<arrived, inflight, nReceived, committed, nResets, completed>>

\* the clear cannot complete: the operation fails as a whole
ResetFails ==
    /\ MayClear
    /\ exclusive' = "failed"
    /\ UNCHANGED <<arrived, inflight, store, nReceived, committed, cleared,
                   nResets, completed>>

ResetRelease ==
    /\ exclusive \in {"cleared", "failed"}
    /\ exclusive' = "idle"
    /\ UNCHANGED <<arrived, inflight, store, nReceived, committed, cleared,
                   nResets, completed>>

----------------------------------------------------------------------------
(* Aggregation Query Engine *)

\* the timeframe tokens as lengths of time, scaled down
TimeframeLen == ("15m" :> 1) @@ ("1h" :> 2)

BytesPerMB == 1048576

\* the timestamp falls in [t - timeframe, t): start inclusive, end exclusive
InTimeframe(ts, t, timeframe) ==
    ts >= t - TimeframeLen[timeframe] /\ ts < t

AgentSelected(agent, e) == agent = "all" \/ NumToStr[e.agent_id] = agent

\* the persisted events a query of (agent, timeframe) at time t ranges over
Selected(st, t, agent, timeframe) ==
    { r \in st : /\ InTimeframe(r.timestamp, t, timeframe)
                 /\ AgentSelected(agent, r.event) }

\* the labels in lexicographic order
LabelOrder == <<"10.0.0.1", "203.0.113.5", "Atlantis", "Israel", "chrome", "slack">>

LabelRank(l) == CHOOSE i \in 1..Len(LabelOrder) : LabelOrder[i] = l

\* descending value, ties broken by label
Before(x, y) ==
    \/ x.value > y.value
    \/ x.value = y.value /\ LabelRank(x.label) < LabelRank(y.label)

RECURSIVE Sorted(_)
Sorted(items) ==
    IF items = {} THEN <<>>
    ELSE LET first == CHOOSE x \in items : \A y \in items \ {x} : Before(x, y)
         IN  <<first>> \o Sorted(items \ {first})

RECURSIVE SumBytes(_)
SumBytes(rows) ==
    IF rows = {} THEN 0
    ELSE LET r == CHOOSE x \in rows : TRUE
         IN  r.event.byte_count + SumBytes(rows \ {r})

\* grouped counts over the selected events, by one field
GroupCount(sel, field) ==
    Sorted({ Item(l, Cardinality({r \in sel : r.event[field] = l})) :
               l \in {r.event[field] : r \in sel} })

\* summed byte counts per software, in whole megabytes
GroupBandwidth(sel) ==
    Sorted({ Item(l, SumBytes({r \in sel : r.event.software_name = l}) \div BytesPerMB) :
               l \in {r.event.software_name : r \in sel} })

Stats(st, t, agent, timeframe) ==
    LET sel == Selected(st, t, agent, timeframe)
    IN  [countries |-> GroupCount(sel, "country"),
         softwares |-> GroupCount(sel, "software_name"),
         ips |-> GroupCount(sel, "destination_ip"),
         bandwidth |-> GroupBandwidth(sel)]

LastTwo(q) == IF Len(q) > 2 THEN Tail(q) ELSE q

\* /api/stats answers the i-th outstanding request from the store as it is now,
\* and updateDashboard fills the charts with the answer
StatsQuery ==
    \E i \in 1..Len(fetches) :
        LET q == fetches[i]
            data == Stats(store, now, q.agent, q.timeframe)
        IN  /\ exclusive = "idle"
            /\ StatsResponse(i, data)
            /\ completed' = LastTwo(Append(completed,
                   [agent |-> q.agent, timeframe |-> q.timeframe, at |-> now,
                    \* the events counted
                    view |-> {r.n : r \in Selected(store, now, q.agent, q.timeframe)},
                    stored |-> Cardinality(store),
                    charts |-> charts']))
            /\ UNCHANGED <<arrived, inflight, store, exclusive, nReceived,
                           committed, cleared, nResets>>

\* the write path and the reset controller
ResetNext ==
    \/ Receive /\ UNCHANGED <<pageVars, now, engVars>>
    \/ WriteBegin /\ UNCHANGED <<dashVars, now, engVars>>
    \/ WriteCommit /\ UNCHANGED <<dashVars, now, engVars>>
    \/ WriteFails /\ UNCHANGED <<dashVars, now, engVars>>
    \/ ResetAcquire /\ UNCHANGED <<dashVars, now, engVars>>
    \/ ResetClear /\ UNCHANGED <<dashVars, now, engVars>>
    \/ ResetFails /\ UNCHANGED <<dashVars, now, engVars>>
    \/ ResetRelease /\ UNCHANGED <<dashVars, now, engVars>>

SpecReset == InitAll /\ [][ResetNext]_vars

\* the write path, the clock and the page's queries
QueryNext ==
    \/ Tick /\ now < MaxQueryTime /\ UNCHANGED <<dashVars, engVars, storeVars>>
    \/ Receive /\ nOps < MaxQueryOps /\ UNCHANGED <<pageVars, now, engVars>>
    \/ WriteBegin /\ UNCHANGED <<dashVars, now, engVars>>
    \/ WriteCommit /\ UNCHANGED <<dashVars, now, engVars>>
    \/ LoadAgentsResponse /\ UNCHANGED <<now, engVars, storeVars>>
    \/ Refresh /\ nOps < MaxQueryOps /\ UNCHANGED <<now, engVars, storeVars>>
    \/ StatsQuery /\ UNCHANGED <<now, engVars>>

SpecQuery == InitAll /\ [][QueryNext]_vars

----------------------------------------------------------------------------
(* The dashboard against an arbitrary manager *)

Init == InitAll

Next ==
    \/ Push /\ UNCHANGED <<now, engVars, storeVars>>
    \/ PingTimeout /\ UNCHANGED <<now, engVars, storeVars>>
    \/ BannerTimeout /\ UNCHANGED <<now, engVars, storeVars>>
    \/ LoadAgentsResponse /\ UNCHANGED <<now, engVars, storeVars>>
    \/ Refresh /\ UNCHANGED <<now, engVars, storeVars>>
    \/ StatsArrives /\ UNCHANGED <<now, engVars, storeVars>>
    \/ StatsFailure /\ UNCHANGED <<now, engVars, storeVars>>
    \/ ResetClick /\ UNCHANGED <<now, engVars, storeVars>>
    \/ ResetArrives /\ UNCHANGED <<now, engVars, storeVars>>
    \/ ResetException /\ UNCHANGED <<now, engVars, storeVars>>

Spec == Init /\ [][Next]_vars

----------------------------------------------------------------------------
(* The live feed on a page whose log is one entry short of its cap *)

\* the event received so far, over and over
PriorEvent ==
    [agent_id |-> 1, direction |-> "in", country |-> "Israel",
     software_name |-> "chrome", destination_ip |-> "10.0.0.1",
     security_event |-> Null]

\* the chart after n events of one label
Counted(label, n) == [labels |-> <<label>>, data |-> <<n>>]

\* the page after LogCap - 1 live events, the responses still outstanding
InitLog ==
    LET n == LogCap - 1 IN
    /\ selectedAgentId = "all"
    /\ agentOptions = <<"all">>
    /\ loadingAgents = TRUE
    /\ charts = [initCharts EXCEPT
                   !.countryChart = Counted(PriorEvent.country, n),
                   !.softwareChart = Counted(PriorEvent.software_name, n),
                   !.ipChart = Counted(PriorEvent.destination_ip, n)]
    /\ log = [i \in 1..n |->
                [id |-> n + 1 - i, className |-> "log-entry ",
                 software_name |-> PriorEvent.software_name,
                 destination_ip |-> PriorEvent.destination_ip]]
    /\ pings = {}
    /\ banners = <<>>
    /\ fetches = <<[agent |-> "all", timeframe |-> DefaultTimeframe]>>
    /\ resetCalls = 0
    /\ alerts = <<>>
    /\ reloads = 0
    /\ nLive = n
    /\ nOps = 0
    /\ lastInput = [op |-> "onmessage", data |-> PriorEvent]

\* socket.onmessage and the timers it starts
FeedNext ==
    \/ Push /\ UNCHANGED <<now, engVars, storeVars>>
    \/ PingTimeout /\ UNCHANGED <<now, engVars, storeVars>>
    \/ BannerTimeout /\ UNCHANGED <<now, engVars, storeVars>>

InitLogAll == InitLog /\ InitEngine /\ InitStore /\ now = 0

SpecLog == InitLogAll /\ [][FeedNext]_vars

\* the live feed from the page load on; a timer that is due is run by the
\* event loop
SpecTimers ==
    /\ Init /\ [][FeedNext]_vars
    /\ WF_vars(PingTimeout /\ UNCHANGED <<now, engVars, storeVars>>)
    /\ WF_vars(BannerTimeout /\ UNCHANGED <<now, engVars, storeVars>>)

----------------------------------------------------------------------------
(* Claims about the dashboard *)

\* the step is socket.onmessage handling lastInput'.data
IsMessageStep == nOps' = nOps + 1 /\ lastInput'.op = "onmessage"

\* the step is confirmReset answering the dialog with lastInput'.isSure
IsClickStep == nOps' = nOps + 1 /\ lastInput'.op = "confirmReset"

\* the viewer selected one agent and the event handled comes from another
FromOtherAgent(sel, data) == sel # "all" /\ NumToStr[data.agent_id] # sel

Total(chart) ==
    LET RECURSIVE Sum(_)
        Sum(q) == IF q = <<>> THEN 0 ELSE Head(q) + Sum(Tail(q))
    IN  Sum(chart.data)

\* C1 as stated: while the viewer has selected one agent, a live event from
\* another agent leaves the page untouched: no chart update, no log entry, no
\* map ping, no security banner.
C1_OtherAgentNotDelivered ==
    [][ (IsMessageStep /\ FromOtherAgent(selectedAgentId, lastInput'.data))
          => UNCHANGED <<charts, log, pings, banners>> ]_vars

\* C1 amended: the selection filters the chart update only.  A live event from
\* another agent than the selected one leaves all four charts unchanged but
\* still adds its log entry, its map ping if outgoing and its banner if
\* classified; an event from the selected agent, or any event under "all",
\* adds one count to the country chart as well.
C1_SelectionFiltersChartsOnly ==
    [][ IsMessageStep =>
          LET d == lastInput'.data IN
          /\ Len(log') = Len(log) + 1 /\ Head(log').id = nLive'
          /\ (d.direction = "out") => (\E m \in pings' \ pings : m.id = nLive')
          /\ (d.security_event # Null)
               => (Len(banners') = Len(banners) + 1 /\ Head(banners').id = nLive')
          /\ IF FromOtherAgent(selectedAgentId, d)
             THEN charts' = charts
             ELSE /\ Total(charts'.countryChart) = Total(charts.countryChart) + 1
                  /\ Total(charts'.softwareChart) = Total(charts.softwareChart) + 1
                  /\ Total(charts'.ipChart) = Total(charts.ipChart) + 1 ]_vars

\* an outgoing, classified event of agent 2 was handled while agent 1 is
\* selected: it is in the log, on the map and in a banner, not in the charts
C1_Witness ==
    /\ lastInput.op = "onmessage"
    /\ selectedAgentId = "1"
    /\ lastInput.data.agent_id = 2
    /\ log # <<>> /\ Head(log).id = nLive
    /\ \E m \in pings : m.id = nLive
    /\ banners # <<>> /\ Head(banners).id = nLive
    /\ charts = initCharts

\* C2: confirmReset sends the reset request only if the viewer accepted the
\* dialog; on a declined dialog no request is sent, the page is not reloaded
\* and charts, log and selection stay as they are.
C2_ResetOnlyWhenConfirmed ==
    [][ /\ (resetCalls' > resetCalls) => (IsClickStep /\ lastInput'.isSure)
        /\ (IsClickStep /\ lastInput'.isSure) => resetCalls' = resetCalls + 1
        /\ (IsClickStep /\ ~lastInput'.isSure)
             => UNCHANGED <<resetCalls, reloads, alerts, charts, log,
                            selectedAgentId, fetches, pings, banners>> ]_vars

\* the dialog was declined on a page that shows something, and nothing is in flight
C2_Witness ==
    /\ lastInput.op = "confirmReset" /\ ~lastInput.isSure
    /\ resetCalls = 0 /\ reloads = 0 /\ alerts = <<>>
    /\ log # <<>>

\* C3: once the response to a reset request is in, the page reports success
\* and reloads only when the response's status is "success"; on any other
\* response, and when the request fails, it reports an error, does not reload
\* and leaves charts and log as they are.
C3_ReloadOnlyOnSuccess ==
    [][ /\ (reloads' # reloads)
             => /\ Len(alerts') = Len(alerts) + 1
                /\ alerts'[Len(alerts')].cause = "success"
        /\ (Len(alerts') = Len(alerts) + 1) =>
             LET a == alerts'[Len(alerts')] IN
             IF a.cause = "success"
             THEN a.text = "Database cleared successfully!" /\ reloads' = reloads + 1
             ELSE /\ a.text \in {"Error: reset failed",
                                 "Could not connect to the server."}
                  /\ UNCHANGED <<reloads, charts, log>> ]_vars

\* an error response arrived on a page that shows a log entry: error
\* reported, no reload, the entry still there
C3_Witness ==
    /\ alerts # <<>>
    /\ alerts[Len(alerts)].cause = "error"
    /\ alerts[Len(alerts)].text = "Error: reset failed"
    /\ reloads = 0
    /\ log # <<>>

\* C4: a live event that carries a security classification adds exactly one
\* security banner, naming that classification and the event's destination
\* IP; an event without a classification adds none.
C4_OneBannerPerClassifiedEvent ==
    [][ IsMessageStep =>
          LET d == lastInput'.data IN
          IF d.security_event \in {"Blacklist Hit", "Port Scan"}
          THEN /\ Len(banners') = Len(banners) + 1
               /\ Tail(banners') = banners
               /\ Head(banners').type = d.security_event
               /\ Head(banners').target = d.destination_ip
          ELSE banners' = banners ]_vars

\* a classified event was handled and its banner is on the page
C4_Witness ==
    /\ lastInput.op = "onmessage"
    /\ lastInput.data.security_event = "Blacklist Hit"
    /\ banners # <<>>
    /\ Head(banners) = [id |-> nLive, type |-> "Blacklist Hit",
                        target |-> "203.0.113.5"]

\* C6: a live event adds exactly one map ping if its direction is "out", and
\* none for any other direction.
C6_PingIffOutgoing ==
    [][ IsMessageStep =>
          IF lastInput'.data.direction = "out"
          THEN /\ pings \subseteq pings'
               /\ Cardinality(pings') = Cardinality(pings) + 1
          ELSE pings' = pings ]_vars

\* an outgoing event was handled and its marker is on the map
C6_Witness ==
    /\ lastInput.op = "onmessage"
    /\ lastInput.data.direction = "out"
    /\ \E m \in pings : m.id = nLive

\* chart new is chart old with one count added for label: the count of its
\* first entry for the label is one higher, or, with no entry for it, the label
\* is appended with count 1; every other entry is as it was
OneCountAdded(old, new, label) ==
    LET at == {i \in 1..Len(old.labels) : old.labels[i] = label}
    IN  IF at # {}
        THEN LET first == CHOOSE i \in at : \A j \in at : i <= j
             IN  /\ new.labels = old.labels
                 /\ Len(new.data) = Len(old.data)
                 /\ \A i \in 1..Len(old.data) :
                      new.data[i] = IF i = first THEN old.data[i] + 1 ELSE old.data[i]
        ELSE /\ Len(new.labels) = Len(old.labels) + 1
             /\ Len(new.data) = Len(old.data) + 1
             /\ SubSeq(new.labels, 1, Len(old.labels)) = old.labels
             /\ SubSeq(new.data, 1, Len(old.data)) = old.data
             /\ new.labels[Len(new.labels)] = label
             /\ new.data[Len(new.data)] = 1

\* C11: a live event handled while the selection is "all" or the event's agent
\* adds exactly one count to each of the country, software and destination-IP
\* charts (the label's count is incremented, or the label is appended with
\* count 1) and leaves the bandwidth chart as it is; handled while another
\* agent is selected, it leaves all four charts as they are.
C11_OneCountPerChart ==
    [][ IsMessageStep =>
          LET d == lastInput'.data IN
          IF FromOtherAgent(selectedAgentId, d)
          THEN charts' = charts
          ELSE /\ OneCountAdded(charts.countryChart, charts'.countryChart, d.country)
               /\ OneCountAdded(charts.softwareChart, charts'.softwareChart,
                                d.software_name)
               /\ OneCountAdded(charts.ipChart, charts'.ipChart, d.destination_ip)
               /\ charts'.bandwidthChart = charts.bandwidthChart ]_vars

\* two events of the same country, software and destination were counted:
\* the second incremented the entries the first appended
C11_Witness ==
    /\ lastInput.op = "onmessage"
    /\ nLive = 2
    /\ charts.countryChart = [labels |-> <<"Israel">>, data |-> <<2>>]
    /\ charts.softwareChart = [labels |-> <<"chrome">>, data |-> <<2>>]
    /\ charts.ipChart = [labels |-> <<"10.0.0.1">>, data |-> <<2>>]
    /\ charts.bandwidthChart = EmptyChart

\* the chart that holds exactly the pairs of a response list, in its order
AsChart(items) ==
    [labels |-> [i \in 1..Len(items) |-> items[i].label],
     data |-> [i \in 1..Len(items) |-> items[i].value]]

\* each of the four charts holds exactly its list of the response
ShowsResponse(ch, data) ==
    /\ ch.countryChart = AsChart(data.countries)
    /\ ch.softwareChart = AsChart(data.softwares)
    /\ ch.ipChart = AsChart(data.ips)
    /\ ch.bandwidthChart = AsChart(data.bandwidth)

\* C12: when an invocation of updateDashboard completes and fills the charts,
\* no live event having arrived, each of the four charts holds exactly the
\* (label, value) pairs of its list of the response, in the response's order,
\* and nothing else.  The response is one the service can give.
C12_ChartsHoldTheResponse ==
    [][ (Len(fetches') < Len(fetches) /\ charts' # charts /\ nLive' = 0)
          => \E data \in StatsSamples : ShowsResponse(charts', data) ]_vars

\* C13: the log entry a live event adds is marked as an alert entry exactly
\* when the event carries a security classification.
C13_AlertEntryIffClassified ==
    [][ IsMessageStep =>
          ( Head(log').className = "log-entry alert-entry"
              <=> lastInput'.data.security_event \in {"Blacklist Hit", "Port Scan"} )
      ]_vars

\* no label twice in the chart, and as many values as labels
WellFormed(chart) ==
    /\ Len(chart.labels) = Len(chart.data)
    /\ \A i, j \in 1..Len(chart.labels) :
         chart.labels[i] = chart.labels[j] => i = j

\* C14: however live events and refreshes interleave, no chart ever holds the
\* same label twice, and each chart has as many values as labels.
C14_ChartsWellFormed == \A c \in ChartIds : WellFormed(charts[c])

\* C15: updateDashboard was the last thing the viewer or the feed did, and
\* every response to it and to the invocations it overtook has arrived, in
\* whatever order: the charts show the result of one invocation only, the
\* most recent one.
C15_ShowsOnlyLatestResult ==
    (lastInput.op = "updateDashboard" /\ fetches = <<>>)
        => \E data \in StatsSamples : ShowsResponse(charts, data)

\* the log shows the most recent min(n, LogCap) of the n events received,
\* newest first
ShowsMostRecent ==
    /\ Len(log) = IF nLive < LogCap THEN nLive ELSE LogCap
    /\ \A i \in 1..Len(log) : log[i].id = nLive + 1 - i

\* C16: the log never holds more than LogCap entries and always shows the most
\* recent min(n, LogCap) of the n events received, newest first: each event
\* adds exactly one entry, its own, at the front, and the entries behind it
\* are those that were there, without the oldest one if they were LogCap.
C16_LogKeepsMostRecent ==
    /\ [](Len(log) <= LogCap /\ ShowsMostRecent)
    /\ [][ IsMessageStep =>
             LET d == lastInput'.data
                 kept == IF Len(log) = LogCap THEN LogCap - 1 ELSE Len(log)
             IN  /\ Head(log').id = nLive'
                 /\ Head(log').software_name = d.software_name
                 /\ Head(log').destination_ip = d.destination_ip
                 /\ Tail(log') = SubSeq(log, 1, kept) ]_vars

\* the log is full and the two oldest entries have been removed from it
C16_Witness ==
    /\ Len(log) = LogCap
    /\ nLive = LogCap + 2
    /\ log[1].id = LogCap + 2
    /\ log[LogCap].id = 3

\* the marker of the id-th live event is on the map
PingShown(id) == \E m \in pings : m.id = id

\* the banner of the id-th live event is on the page
BannerShown(id) == \E i \in 1..Len(banners) : banners[i].id = id

\* C17: a step that is not a live event takes away one marker or one banner
\* and nothing else, a live event takes none away; every marker and every
\* banner added is eventually taken away; and once the events have stopped
\* the map and the page end up without markers and banners.
C17_TimersRemoveTheirOwn ==
    /\ [][ IF IsMessageStep
           THEN pings \subseteq pings' /\ Range(banners) \subseteq Range(banners')
           ELSE \/ /\ pings' \subseteq pings
                   /\ Cardinality(pings \ pings') = 1
                   /\ banners' = banners
                \/ /\ Range(banners') \subseteq Range(banners)
                   /\ Len(banners') = Len(banners) - 1
                   /\ pings' = pings ]_vars
    /\ \A id \in 1..MaxOps : PingShown(id) ~> ~PingShown(id)
    /\ \A id \in 1..MaxOps : BannerShown(id) ~> ~BannerShown(id)
    /\ <>[](pings = {} /\ banners = <<>>)

\* outgoing, classified events were shown on the map and in banners, and all
\* their markers and banners are gone
C17_Witness ==
    /\ nLive >= 2
    /\ lastInput.op = "onmessage"
    /\ lastInput.data.direction = "out"
    /\ lastInput.data.security_event = "Blacklist Hit"
    /\ pings = {} /\ banners = <<>>
    /\ Len(log) = nLive

----------------------------------------------------------------------------
(* Claims about the heuristics engine, read off the events it emitted *)

SameSource(i, j) == classified[i].source = classified[j].source

\* the events of i's source up to i that lie within the window ending at i
InWindowOf(i) ==
    { j \in 1..i : /\ SameSource(i, j)
                   /\ classified[j].timestamp >= classified[i].timestamp - W }

\* at event i its source has shown K distinct destination ports within W
ThresholdMet(i) ==
    Cardinality({classified[j].destination_port : j \in InWindowOf(i)}) >= K

ScansBefore(i) ==
    { j \in 1..(i-1) : SameSource(i, j) /\ classified[j].security_event = "port-scan" }

\* a port-scan classification is emitted only with the threshold met, and never
\* within the cooldown of an earlier one for the same source
ScanOnlyAtThresholdOutsideCooldown ==
    \A i \in 1..Len(classified) :
        classified[i].security_event = "port-scan" =>
            /\ ThresholdMet(i)
            /\ \A j \in ScansBefore(i) :
                 classified[i].timestamp - classified[j].timestamp >= Cooldown

\* C7 as stated: the event at which a source first shows K distinct ports
\* within W is classified port-scan, and no further port-scan classification
\* follows for that source within the cooldown.
C7_ScanAtFirstCrossing ==
    /\ \A i \in 1..Len(classified) :
         (ThresholdMet(i) /\ ScansBefore(i) = {})
            => classified[i].security_event = "port-scan"
    /\ ScanOnlyAtThresholdOutsideCooldown

\* C7 amended: for the events of one source, none of them within the window to
\* a blacklisted destination, the event at which K distinct ports within W are
\* first shown is classified port-scan, and no further port-scan
\* classification follows for that source within the cooldown, however many
\* more distinct ports appear.
C7_ScanAtFirstCrossingUnlessBlacklisted ==
    /\ \A i \in 1..Len(classified) :
         ( /\ ThresholdMet(i)
           /\ ScansBefore(i) = {}
           /\ \A j \in InWindowOf(i) : classified[j].destination_ip \notin Blacklist )
            => classified[i].security_event = "port-scan"
    /\ ScanOnlyAtThresholdOutsideCooldown

\* a source crossed the threshold on clean destinations and was classified
\* port-scan; a later event of it, within the cooldown and with one more
\* distinct port in the window, got no classification
C7_Witness ==
    \E i, k \in 1..Len(classified) :
        /\ i < k /\ SameSource(i, k)
        /\ ThresholdMet(i) /\ ScansBefore(i) = {}
        /\ classified[i].security_event = "port-scan"
        /\ classified[k].timestamp - classified[i].timestamp < Cooldown
        /\ Cardinality({classified[j].destination_port : j \in InWindowOf(k)}) > K
        /\ classified[k].security_event = "none"

\* C8: every event carries at most one classification, and an event whose
\* destination is blacklisted is classified blacklist-hit whatever the
\* port-scan state of its source, also when the port-scan condition holds for
\* that very event.
C8_BlacklistHitTakesPrecedence ==
    \A i \in 1..Len(classified) :
        /\ classified[i].security_event \in {"none", "port-scan", "blacklist-hit"}
        /\ classified[i].destination_ip \in Blacklist
             => classified[i].security_event = "blacklist-hit"
        /\ classified[i].security_event = "blacklist-hit"
             => classified[i].destination_ip \in Blacklist

\* an event to a blacklisted destination crossed its source's threshold, with
\* no alert before it, and was classified blacklist-hit
C8_Witness ==
    \E i \in 1..Len(classified) :
        /\ classified[i].destination_ip \in Blacklist
        /\ ThresholdMet(i) /\ ScansBefore(i) = {}
        /\ classified[i].security_event = "blacklist-hit"

----------------------------------------------------------------------------
(* Claims about the store: reset and aggregation *)

\* the burst is over: every event received has been written, none was lost
BurstWritten ==
    /\ nReceived = MaxEvents
    /\ arrived = {} /\ inflight = {}
    /\ committed = 1..MaxEvents
    /\ nResets > 0 /\ exclusive = "idle"

\* the store holds exactly the persisted events whose write began after the
\* last successful clear
StoreIsWritesSinceClear == {r.n : r \in store} = committed \ cleared

\* C9 as stated: with a reset issued during a burst of N events, the store
\* ends with all N events or none (never a count strictly between 0 and N),
\* and a reset that fails leaves the store as it was.
C9_AllOrNothing ==
    /\ BurstWritten => Cardinality(store) \in {0, MaxEvents}
    /\ StoreIsWritesSinceClear

\* C9 amended: the clear is atomic with respect to every single write, not to
\* the burst: right after a successful clear the store is empty, and at any
\* time it holds exactly the persisted events whose write began after the last
\* successful clear (all N if the reset ran first, none if it ran last, those
\* written after it if it ran in between); a reset that fails leaves the store
\* as it was.
C9_ClearIsAtomicPerWrite ==
    /\ StoreIsWritesSinceClear
    /\ exclusive = "cleared" => store = {}
    /\ BurstWritten => Cardinality(store) = MaxEvents - Cardinality(cleared)

\* a reset ran in the middle of the burst: all events were written, some
\* before the clear and some after it
C9_Witness ==
    /\ BurstWritten
    /\ cleared # {}
    /\ Cardinality(store) \notin {0, MaxEvents}

\* the last two answered queries are the same query
SameQueryTwice ==
    /\ Len(completed) = 2
    /\ completed[1].agent = completed[2].agent
    /\ completed[1].timeframe = completed[2].timeframe

\* no event is new to the second query: the store holds as many events as at
\* the first, and the query ranges over the same events both times
NoNewEvents ==
    /\ completed[1].stored = completed[2].stored
    /\ completed[1].view = completed[2].view

\* C5: the same query (agent filter, timeframe) repeated through
\* updateDashboard with no new event in between leaves every chart with the
\* labels and values it had after the first.
C5_RepeatedQuerySameCharts ==
    (SameQueryTwice /\ NoNewEvents)
        => completed[2].charts = completed[1].charts

\* C10 as stated: a query with a timeframe, evaluated at time now, counts the
\* events of its agent filter timestamped from now - timeframe to now, both
\* ends included, and none that is older.  Read off the country chart of a
\* query answered into empty charts.
C10_TimeframeBoundaries ==
    [][ (completed' # completed /\ charts = initCharts) =>
          LET c == completed'[Len(completed')]
              expected == { r \in store :
                              /\ AgentSelected(c.agent, r.event)
                              /\ r.timestamp >= c.at - TimeframeLen[c.timeframe]
                              /\ r.timestamp <= c.at }
          IN  Total(charts'.countryChart) = Cardinality(expected) ]_vars

====
